---- MODULE Spec2Model ----
(***************************************************************************)
(* Model of the news_extraction pipeline orchestrator (NewsProcessor in    *)
(* news_pipeline.py) and of its deduplication engine (deduplicator.py),    *)
(* with the stage collaborators (summarizer, TTS generator, Telegram       *)
(* sender) modelled by the branches their code takes.                      *)
(*                                                                         *)
(* Texts are abstracted to what the code reads of them: the length of       *)
(* full_text, whether a feed summary is empty, and which producer wrote an  *)
(* ai_summary / meta summary (the producers write distinct marker texts).   *)
(* Similarity scores and thresholds are in hundredths (0.8 is 80).          *)
(***************************************************************************)
EXTENDS Integers, Sequences, FiniteSets, TLC

\* ---------------------------------------------------------------- bounds
\* Largest batch handed to remove_duplicates in the deduplication specification.
MaxBatch == 3
\* Largest full_text length (lengths range over 0..MaxLen).
MaxLen == 1
\* Largest batch the feeds return to a pipeline run.
MaxArticles == 2

\* ------------------------------------------------------ program constants
\* Config.DUPLICATE_THRESHOLD = 0.8, the threshold the pipeline passes.
DUPLICATE_THRESHOLD == 80
\* similarity_threshold: float = 0.85, the default of remove_duplicates.
DEFAULT_SIMILARITY_THRESHOLD == 85

Lens == 0..MaxLen
Thresholds == {DUPLICATE_THRESHOLD, DEFAULT_SIMILARITY_THRESHOLD}
\* The scores a pair can take, one per way `score > threshold` can turn out for
\* the two thresholds: 80 exceeds neither (it equals the lower one, and any lower
\* score compares the same), 85 exceeds only the lower one (and equals the
\* higher), 100 (identical texts) exceeds both.
Scores == {DUPLICATE_THRESHOLD, DEFAULT_SIMILARITY_THRESHOLD, 100}

\* The invocations of run_daily_pipeline(config) that are modelled.
Runs == {1, 2}

VARIABLES
    run,    \* per invocation: the NewsProcessor (its stats), the locals of
            \* run_daily_pipeline (articles, meta_summary, podcast_result,
            \* telegram_result), its position and the result it returned
    dd,     \* one call of remove_duplicates: its arguments and what it returned
    ai,     \* one call of an AISummarizer method: its arguments and what it
            \* returned
    inv     \* per fallback stage of invocation 1: the calls of the stage's
            \* primary and of its fallback, one entry per input

vars == <<run, dd, ai, inv>>

\* ------------------------------------------------------------- articles
\* An article dict. full_text is the length of the extracted text (0: '' or the
\* key is absent, which article.get('full_text', '') reads alike); summary is the
\* feed's summary ("" or "rss"); ai_summary names the producer of the summary
\* ("none": key absent).
Article(i, feedSummary, len, ok) ==
    [id |-> i, summary |-> feedSummary, full_text |-> len,
     extraction_successful |-> ok, ai_summary |-> "none"]

\* The index pairs (i, j), i < j, of a batch of n articles.
Pairs(n) == {p \in (1..n) \X (1..n) : p[1] < p[2]}

\* cosine_sim restricted to the entries the loop reads: a score per pair i < j.
SimMatrices(n) == [Pairs(n) -> Scores]

\* What the scoring block (TfidfVectorizer.fit_transform, cosine_similarity)
\* produced: a matrix, or an exception (e.g. an empty vocabulary).
ScoringRaised == [raised |-> TRUE]
Scored(m) == [raised |-> FALSE, cosine_sim |-> m]
Scorings(n) == {Scored(m) : m \in SimMatrices(n)} \cup {ScoringRaised}

\* `if similarity_score > similarity_threshold`
IsDuplicateReversed(score, threshold) == score < threshold

IsDuplicateOrEqual(score, threshold) == score >= threshold

IsDuplicate(score, threshold) == score > threshold

\* `if content1_length >= content2_length: remove j else: remove i`
PairLoserStrict(c1, c2, i, j) == IF c1 > c2 THEN j ELSE i

PairLoserLonger(c1, c2, i, j) == IF c1 >= c2 THEN i ELSE j

PairLoser(c1, c2, i, j) == IF c1 >= c2 THEN j ELSE i

\* articles_to_remove.add(loser): a set add, whatever the set already holds.
MarkSkipLost(removed, i, j, loser) ==
    IF i \in removed \/ j \in removed THEN removed ELSE removed \cup {loser}

MarkBoth(removed, i, j, loser) == removed \cup {i, j}

MarkForRemoval(removed, i, j, loser) == removed \cup {loser}

\* `text_content = full_text if full_text else summary`, with
\* summary = article.get('ai_summary', article.get('summary', '')): the field
\* that supplies the text find_duplicates compares (next to the title).
text_content(article) ==
    IF article.full_text > 0 THEN "full_text"
    ELSE IF article.ai_summary # "none" THEN "ai_summary"
    ELSE "summary"

\* One duplicate_pairs entry.
PairRecord(i, j, sim) ==
    [article1_idx |-> i, article2_idx |-> j, similarity_score |-> sim[<<i, j>>]]

\* The nested loops `for i in range(n): for j in range(i + 1, n)` from pair
\* (i, j) onwards; acc carries duplicate_pairs and articles_to_remove.
RECURSIVE FindLoop(_, _, _, _, _, _)
FindLoop(articles, sim, threshold, i, j, acc) ==
    IF i >= Len(articles) THEN acc
    ELSE IF j > Len(articles) THEN FindLoop(articles, sim, threshold, i + 1, i + 2, acc)
    ELSE IF IsDuplicate(sim[<<i, j>>], threshold)
         THEN FindLoop(articles, sim, threshold, i, j + 1,
                [duplicate_pairs |-> Append(acc.duplicate_pairs, PairRecord(i, j, sim)),
                 articles_to_remove |->
                    MarkForRemoval(acc.articles_to_remove, i, j,
                        PairLoser(articles[i].full_text, articles[j].full_text, i, j))])
         ELSE FindLoop(articles, sim, threshold, i, j + 1, acc)

NoDuplicates == [duplicate_pairs |-> <<>>, articles_to_remove |-> {}]

\* find_duplicates. Fewer than two articles return before any scoring; an
\* exception of the scoring block is turned into an empty result by the except
\* clause.
find_duplicates(articles, scoring, threshold) ==
    LET r == IF Len(articles) < 2 \/ scoring.raised
             THEN NoDuplicates
             ELSE FindLoop(articles, scoring.cosine_sim, threshold, 1, 2, NoDuplicates)
    IN  [duplicate_pairs |-> r.duplicate_pairs,
         articles_to_remove |-> r.articles_to_remove,
         stats |-> [total_articles |-> Len(articles),
                    duplicate_pairs_found |-> Len(r.duplicate_pairs),
                    articles_to_remove |-> Cardinality(r.articles_to_remove)]]

\* The enumerate loop of remove_duplicates: the kept articles, in batch order.
RECURSIVE KeptFrom(_, _, _)
KeptFrom(articles, toRemove, i) ==
    IF i > Len(articles) THEN <<>>
    ELSE IF i \in toRemove THEN KeptFrom(articles, toRemove, i + 1)
    ELSE <<articles[i]>> \o KeptFrom(articles, toRemove, i + 1)

\* The removed articles: copies annotated with original_index.
RECURSIVE RemovedFrom(_, _, _)
RemovedFrom(articles, toRemove, i) ==
    IF i > Len(articles) THEN <<>>
    ELSE IF i \in toRemove
         THEN <<[article |-> articles[i], removal_reason |-> "duplicate_content",
                 original_index |-> i]>> \o RemovedFrom(articles, toRemove, i + 1)
         ELSE RemovedFrom(articles, toRemove, i + 1)

\* The caller's list as the enumerate loop of remove_duplicates leaves it. The
\* loop only reads the list: a kept article is appended, by reference, to a new
\* list, and a removed one is spread into a new dict ({**article, ...}), so
\* every element is left as it was.
ArticlesAnnotatedInPlace(articles, toRemove) ==
    [i \in 1..Len(articles) |->
        IF i \in toRemove
        THEN [article |-> articles[i], removal_reason |-> "duplicate_content",
              original_index |-> i]
        ELSE articles[i]]

ArticlesAfterLoop(articles, toRemove) ==
    [i \in 1..Len(articles) |-> articles[i]]

\* remove_duplicates. The returned record also shows articles_to_remove, the
\* local the enumerate loop reads.
remove_duplicates(articles, scoring, threshold) ==
    IF articles = <<>>
    THEN [articles |-> <<>>, removed_articles |-> <<>>,
          deduplication_stats |-> [original_count |-> 0, final_count |-> 0,
                                   duplicates_removed |-> 0]]
    ELSE
        LET info == find_duplicates(articles, scoring, threshold)
            kept == KeptFrom(articles, info.articles_to_remove, 1)
        IN  [articles |-> kept,
             removed_articles |-> RemovedFrom(articles, info.articles_to_remove, 1),
             deduplication_stats |->
                [original_count |-> Len(articles), final_count |-> Len(kept),
                 duplicates_removed |-> Len(articles) - Len(kept),
                 duplicate_pairs_found |-> Len(info.duplicate_pairs)],
             duplicate_pairs |-> info.duplicate_pairs,
             articles_to_remove |-> info.articles_to_remove]

\* ------------------------------------------------ the pipeline: state
Stages == {"fetch", "extract", "dedup", "summarize", "meta", "podcast", "telegram"}

\* The fallback-policy stages.
FallbackStages == {"summarize", "meta", "podcast", "telegram"}

\* No primary or fallback has been called.
NoInvocations == [st \in FallbackStages |-> <<>>]

\* self.stats as __init__ leaves it (the timestamps and the duration, which no
\* decision reads, are left out).
InitialStats ==
    [articles_fetched |-> 0, articles_with_content |-> 0,
     articles_after_deduplication |-> 0, duplicates_removed |-> 0,
     ai_summaries_generated |-> 0, podcast_created |-> FALSE,
     telegram_sent |-> FALSE, errors |-> <<>>]

\* podcast_result is None / telegram_result and the returned result are unset.
NoPodcast == [success |-> FALSE]
NoTelegram ==
    [podcast_sent |-> FALSE, text_sent |-> FALSE, primary_method |-> "unset",
     attempts |-> <<>>]
NoResult == [status |-> "none"]

\* No call of remove_duplicates on its own is being followed.
NoCall == [pc |-> "idle"]

\* No invocation yet.
Idle ==
    [pc |-> "idle", articles |-> <<>>, stats |-> InitialStats, meta_summary |-> "unset",
     podcast_result |-> NoPodcast, telegram_result |-> NoTelegram, result |-> NoResult,
     calls |-> [st \in Stages |-> 0], faults |-> {},
     branch |-> [st \in {"summarize", "meta", "podcast", "telegram"} |-> "none"]]

\* processor = NewsProcessor(config); processor.run_daily_pipeline() is entered.
\* calls counts the invocations of each stage method; branch records which
\* branch (primary or fallback) each fallback-policy stage took; faults holds
\* the stages during whose work an exception was raised. All three are history
\* the program does not hold.
NewsProcessor == [Idle EXCEPT !.pc = "fetch"]

AddError(s, msg) == [s EXCEPT !.stats.errors = Append(@, msg)]
Called(s, st) == [s EXCEPT !.calls[st] = @ + 1]
Fault(s, st) == [s EXCEPT !.faults = @ \cup {st}]

\* _finish_with_error: the message is appended to the errors and the error
\* result returned.
finish_with_error(s, error_message) ==
    LET s1 == AddError(s, error_message) IN
    [s1 EXCEPT !.pc = "done",
               !.result = [status |-> "error", error |-> error_message,
                           statistics |-> s1.stats]]

\* `if not articles:` of run_daily_pipeline
NoArticlesNever(articles) == FALSE

NoArticles(articles) == articles = <<>>

\* --------------------------------------------------------------- fetch
\* What load_rss_sources / fetch_all_sources did: raised, or returned a batch.
FetchRaised == [raised |-> TRUE]
Fetched(b) == [raised |-> FALSE, articles |-> b]

\* The batches of n articles as rss_fetcher builds them: no extraction fields
\* yet, a feed summary that is empty or not.
FeedBatches(n) ==
    {[i \in 1..n |-> Article(i, f[i], 0, FALSE)] : f \in [1..n -> {"", "rss"}]}

\* _fetch_articles
fetch_articles(s, fetch) ==
    LET s0 == Called(s, "fetch") IN
    IF fetch.raised
    THEN [AddError(Fault(s0, "fetch"), "RSS fetching failed") EXCEPT !.articles = <<>>]
    ELSE [s0 EXCEPT !.articles = fetch.articles,
                    !.stats.articles_fetched = Len(fetch.articles)]

\* ------------------------------------------------------------- extract
\* What extract_article_content returns for one article: the text it parsed
\* (possibly empty) with extraction_successful True, or '' with False. A parsed
\* text is empty or of the greatest length; the lengths in between are
\* exercised on the deduplicator alone (SpecDedup).
ContentData == {[full_text |-> l, extraction_successful |-> TRUE] : l \in {0, MaxLen}}
                \cup {[full_text |-> 0, extraction_successful |-> FALSE]}

ExtractRaised == [raised |-> TRUE]
Extracted(c) == [raised |-> FALSE, content |-> c]

\* enriched_article = {**article, **content_data}
Enrich(article, content_data) ==
    [article EXCEPT !.full_text = content_data.full_text,
                    !.extraction_successful = content_data.extraction_successful]

\* successful = sum(1 for a in articles_with_content
\*                  if a.get('extraction_successful', False))
ExtractionSuccessful(a) == a.extraction_successful

CountSuccessful(articles) ==
    Cardinality({i \in 1..Len(articles) : ExtractionSuccessful(articles[i])})

\* _extract_content: extract_content_batch enriches every article, in order;
\* an exception returns the original articles.
extract_content_counting_first(s, ex) ==
    LET s0 == Called(s, "extract") IN
    IF ex.raised
    THEN [AddError(Fault(s0, "extract"), "Content extraction failed") EXCEPT
              !.stats.articles_with_content = Len(s.articles)]
    ELSE LET enriched == [i \in 1..Len(s.articles) |-> Enrich(s.articles[i], ex.content[i])]
         IN  [s0 EXCEPT !.articles = enriched,
                        !.stats.articles_with_content = CountSuccessful(enriched)]

extract_content(s, ex) ==
    LET s0 == Called(s, "extract") IN
    IF ex.raised
    THEN AddError(Fault(s0, "extract"), "Content extraction failed")
    ELSE LET enriched == [i \in 1..Len(s.articles) |-> Enrich(s.articles[i], ex.content[i])]
         IN  [s0 EXCEPT !.articles = enriched,
                        !.stats.articles_with_content =
                            CountSuccessful(enriched)]

\* --------------------------------------------------------------- dedup
\* What the try block of _deduplicate_articles met: an exception that escaped
\* remove_duplicates (or the read of config.DUPLICATE_THRESHOLD), or a call that
\* returned, with the scoring its find_duplicates computed.
DedupRaised == [raised |-> TRUE]
Deduped(sc) == [raised |-> FALSE, scoring |-> sc]

\* The scoring block of find_duplicates was entered and raised; the except
\* clause of find_duplicates logged the exception and returned no duplicates.
ScoringFailed(articles, scoring) == Len(articles) >= 2 /\ scoring.raised

\* _deduplicate_articles, followed by articles = dedup_result['articles'].
\* The except clause keeps the whole batch.
deduplicate_articles(s, dq) ==
    LET s0 == Called(s, "dedup") IN
    IF dq.raised
    THEN AddError(Fault(s0, "dedup"), "Deduplication failed")
    ELSE LET d == remove_duplicates(s.articles, dq.scoring, DUPLICATE_THRESHOLD)
             s1 == IF ScoringFailed(s.articles, dq.scoring) THEN Fault(s0, "dedup") ELSE s0
         IN  [s1 EXCEPT !.articles = d.articles,
                        !.stats.articles_after_deduplication = Len(d.articles),
                        !.stats.duplicates_removed = d.deduplication_stats.duplicates_removed]

\* ----------------------------------------------------------- summarize
\* What the OpenRouter request of one summarize / _ai_meta_summarize call did:
\* returned text, returned text that is empty once stripped, or raised.
Responses == {"text", "blank", "raise"}

\* The text argument of summarize: a str, or a value that has no split (None).
Texts == {"str", "not_str"}

\* _fallback_summary on a str: the extractive summary, which ends with the
\* marker "[Extractive summary - AI summarization unavailable]".
fallback_summary == "FB"

\* "Summary generation failed - content processing error"
summary_failed == "SENTINEL"

\* The try block of _fallback_summary: text.split raises on a value that is
\* not a str ("RAISED": an exception leaves the block).
fallback_summary_try(text) == IF text = "str" THEN fallback_summary ELSE "RAISED"

fallback_summary_unguarded(text) == fallback_summary_try(text)

\* _fallback_summary: the except clause returns the last-resort sentence.
fallback_summary_or_failed(text) ==
    IF fallback_summary_try(text) = "RAISED" THEN summary_failed
    ELSE fallback_summary_try(text)

\* AISummarizer.summarize(text): the producer of the returned summary. The
\* prompt is an f-string, so the request is built for any text.
summarize(text, api_available, response) ==
    IF ~api_available THEN fallback_summary_or_failed(text)
    ELSE IF response = "raise" THEN fallback_summary_or_failed(text)
    ELSE IF response = "blank" THEN ""
    ELSE "AI"

\* The loop body of process_article_summaries: article['ai_summary'] = ...
\* An article without full_text takes the feed summary ("RSS", or "" when the
\* feed gave none).
SummarizeArticle(article, api_available, response) ==
    [article EXCEPT !.ai_summary =
        IF article.full_text > 0 THEN summarize("str", api_available, response)
        ELSE IF article.summary = "" THEN "" ELSE "RSS"]

\* `a.get('ai_summary', '').strip() and 'AI summarization unavailable' not in ...`
\* holds of every non-empty text without the marker: an AI text, a copied feed
\* summary, and the last-resort sentence of _fallback_summary ("SENTINEL",
\* which no str input of _fallback_summary produces).
CountsAsAISummary(a) == a.ai_summary \in {"AI", "RSS", "SENTINEL"}

\* ai_summaries = sum(1 for a in articles_with_summaries if ...)
CountAISummaries(articles) ==
    Cardinality({i \in 1..Len(articles) : CountsAsAISummary(articles[i])})

\* What process_article_summaries did: raised before its loop wrote a summary,
\* or ran its loop over all the articles, with the availability its
\* AISummarizer found and the response to each request.
SummariesRaised == [raised |-> TRUE]
SummaryRuns(n) ==
    [raised : {FALSE}, api_available : BOOLEAN, responses : [1..n -> Responses]]

\* process_article_summaries: ai_summary is written into each article, in
\* order.
HasText(a) == a.full_text > 0

process_articles_with_text(articles, sm) ==
    SelectSeq([i \in 1..Len(articles) |->
                  SummarizeArticle(articles[i], sm.api_available, sm.responses[i])],
              HasText)

process_article_summaries(articles, sm) ==
    [i \in 1..Len(articles) |->
        SummarizeArticle(articles[i], sm.api_available, sm.responses[i])]

\* The branch of the summarization stage: fallback when the extractive fallback
\* wrote the summary of some article.
SummaryBranch(articles) ==
    IF \E i \in 1..Len(articles) : articles[i].ai_summary = "FB" THEN "fallback"
    ELSE IF \E i \in 1..Len(articles) : articles[i].ai_summary \in {"AI", ""}
                                          /\ articles[i].full_text > 0 THEN "primary"
    ELSE "none"

\* _generate_summaries
generate_summaries(s, sm) ==
    LET s0 == Called(s, "summarize") IN
    IF sm.raised
    THEN AddError(Fault(s0, "summarize"), "Summary generation failed")
    ELSE LET articles_with_summaries == process_article_summaries(s.articles, sm)
         IN  [s0 EXCEPT !.articles = articles_with_summaries,
                        !.branch["summarize"] = SummaryBranch(articles_with_summaries),
                        !.stats.ai_summaries_generated =
                            CountAISummaries(articles_with_summaries)]

\* ---------------------------------------------------------------- meta
\* `if summary and not summary.startswith('Summary generation failed')`
ValidSummary(a) == a.ai_summary \in {"AI", "RSS", "FB"}

\* The except clause of generate_meta_summary: an exception raised in its try
\* block (outside the handlers of the two summarizers) is logged and this
\* sentence returned.
generate_meta_summary_failed == "META_FAILED"

\* The try block of generate_meta_summary: the producer of the returned text.
\* A row whose summary is a truthy value that is not a str ("NAN", the float a
\* DataFrame holds for a missing cell) makes summary.startswith raise.
generate_meta_summary_try(articles, api_available, response) ==
    LET n == Len(articles)
    IN  IF \E i \in 1..n : articles[i].ai_summary = "NAN" THEN "RAISED"
        ELSE IF \A i \in 1..n : ~ValidSummary(articles[i]) THEN "NO_VALID_SUMMARIES"
        ELSE IF ~api_available THEN "FALLBACK_META"
        ELSE IF response = "raise" THEN "FALLBACK_META"
        ELSE IF response = "blank" THEN ""
        ELSE "AI_META"

\* AISummarizer.generate_meta_summary(df, 'ai_summary')
generate_meta_summary(articles, api_available, response) ==
    IF generate_meta_summary_try(articles, api_available, response) = "RAISED"
    THEN generate_meta_summary_failed
    ELSE generate_meta_summary_try(articles, api_available, response)

\* What _create_meta_summary met: an exception that escaped to its except
\* clause, an exception inside generate_meta_summary's try block, or a call in
\* which the summarizer found the API available or not and got a response.
MetaRaised == [raised |-> TRUE]
MetaInternalError ==
    [raised |-> FALSE, internal_error |-> TRUE, api_available |-> TRUE, response |-> "text"]
MetaRuns ==
    [raised : {FALSE}, internal_error : {FALSE}, api_available : BOOLEAN,
     response : Responses]

MetaBranch(text) ==
    IF text \in {"AI_META", ""} THEN "primary"
    ELSE IF text = "FALLBACK_META" THEN "fallback" ELSE "none"

\* _create_meta_summary: the except clause returns the placeholder sentence.
create_meta_summary(s, mr) ==
    LET s0 == Called(s, "meta") IN
    IF mr.raised
    THEN [AddError(Fault(s0, "meta"), "Meta-summary creation failed") EXCEPT
              !.meta_summary = "PLACEHOLDER"]
    ELSE IF mr.internal_error
    THEN [Fault(s0, "meta") EXCEPT !.meta_summary = generate_meta_summary_failed]
    ELSE LET text == generate_meta_summary(s.articles, mr.api_available, mr.response)
         IN  [s0 EXCEPT !.meta_summary = text, !.branch["meta"] = MetaBranch(text)]

\* -------------------------------------------------------------- podcast
\* What a call of generate_podcast met:
\*   premium      config.USE_GOOGLE_TTS and the Google client could be set up
\*   google_ok    the Google synthesis request succeeded
\*   espeak_ok    the eSpeak subprocess produced a WAV file
\*   audio_ok     pydub is importable and the audio processing and export ran
\*   cloud_ok     the upload to cloud storage succeeded
TTSRuns ==
    [raised : {FALSE}, premium : BOOLEAN, google_ok : BOOLEAN, espeak_ok : BOOLEAN,
     audio_ok : BOOLEAN, cloud_ok : BOOLEAN]
PodcastRaised == [raised |-> TRUE]

\* text_to_speech_espeak: the engine whose WAV file is returned ("none": None).
text_to_speech_espeak(env) == IF env.espeak_ok THEN "espeak" ELSE "none"

\* text_to_speech_google: the except clause falls back to eSpeak.
text_to_speech_google(env) ==
    IF env.google_ok THEN "google" ELSE text_to_speech_espeak(env)

\* generate_speech
generate_speech(env) ==
    IF env.premium THEN text_to_speech_google(env) ELSE text_to_speech_espeak(env)

\* The output file of the run: daily_news_<YYYYMMDD>.mp3, a relative path made
\* of the local date alone. The runs of a behaviour happen on one calendar day,
\* so the name is one value for all of them.
PodcastFile == "daily_news_today.mp3"

\* create_podcast_episode (through generate_podcast): None, or the result dict.
\* duration_minutes and file_size_mb are measured on the exported file
\* ("measured": either engine can produce a file of a given duration and size);
\* the dict has no field for the engine that produced the audio.
create_podcast_episode(env) ==
    IF ~env.audio_ok \/ generate_speech(env) = "none" THEN NoPodcast
    ELSE [success |-> TRUE, local_file |-> PodcastFile,
          duration_minutes |-> "measured", file_size_mb |-> "measured",
          cloud_storage |-> [success |-> env.cloud_ok]]

\* The branch of the synthesis stage that produced the audio.
TTSBranch(env) ==
    IF ~env.audio_ok THEN "none"
    ELSE IF generate_speech(env) = "google" THEN "primary"
    ELSE IF generate_speech(env) = "espeak" THEN "fallback" ELSE "none"

\* The except clause of _generate_podcast: the error is recorded, None returned.
PodcastExceptEscapes(s) == finish_with_error(s, "Pipeline exception")

PodcastExcept(s) ==
    [AddError(Fault(s, "podcast"), "Podcast generation failed: exception") EXCEPT
        !.podcast_result = NoPodcast]

\* _generate_podcast
generate_podcast(s, env) ==
    LET s0 == Called(s, "podcast") IN
    IF env.raised THEN PodcastExcept(s0)
    ELSE LET podcast_result == create_podcast_episode(env)
         IN  IF podcast_result.success
             THEN [s0 EXCEPT !.podcast_result = podcast_result,
                             !.stats.podcast_created = TRUE,
                             !.branch["podcast"] = TTSBranch(env)]
             ELSE [AddError(s0, "Podcast generation failed") EXCEPT
                             !.podcast_result = podcast_result]

\* ------------------------------------------------------------- telegram
\* What the Telegram sender met: whether the bot is configured, and whether the
\* audio upload and the text message went through.
TelegramRuns ==
    [raised : {FALSE}, configured : BOOLEAN, audio_ok : BOOLEAN, text_ok : BOOLEAN]
TelegramRaised == [raised |-> TRUE]

\* send_podcast_sync(...)['success'] and send_text_summary_sync(...)['success']
send_podcast_sync(env) == env.configured /\ env.audio_ok
send_text_summary_sync(env) == env.configured /\ env.text_ok

\* send_daily_podcast(podcast_file, summary_text). attempts lists the calls of
\* send_podcast_sync ("audio") and send_text_summary_sync ("text") it made, in
\* order; it is not a key of the returned dict.
send_daily_podcast_and_text(summary_text, env) ==
    [podcast_sent |-> send_podcast_sync(env),
     text_sent |-> summary_text # "" /\ send_text_summary_sync(env),
     primary_method |-> IF send_podcast_sync(env) THEN "audio"
                        ELSE IF summary_text # "" /\ send_text_summary_sync(env)
                        THEN "text" ELSE "failed",
     attempts |-> IF summary_text # "" THEN <<"audio", "text">> ELSE <<"audio">>]

send_daily_podcast(summary_text, env) ==
    IF send_podcast_sync(env)
    THEN [podcast_sent |-> TRUE, text_sent |-> FALSE, primary_method |-> "audio",
          attempts |-> <<"audio">>]
    ELSE IF summary_text # ""
    THEN [podcast_sent |-> FALSE, text_sent |-> send_text_summary_sync(env),
          primary_method |-> IF send_text_summary_sync(env) THEN "text" ELSE "failed",
          attempts |-> <<"audio", "text">>]
    ELSE [podcast_sent |-> FALSE, text_sent |-> FALSE, primary_method |-> "failed",
          attempts |-> <<"audio">>]

\* The text-only branch of _send_telegram.
TextOnly(env) ==
    [podcast_sent |-> FALSE, text_sent |-> send_text_summary_sync(env),
     primary_method |-> IF send_text_summary_sync(env) THEN "text" ELSE "failed",
     attempts |-> <<"text">>]

\* The except clause of _send_telegram. The two sends catch their own
\* exceptions, so what reaches this clause was raised outside a send (building
\* the sender, reading podcast_result) and no send had been made.
TelegramExceptEscapes(s) == finish_with_error(s, "Pipeline exception")

TelegramExcept(s) ==
    [AddError(Fault(s, "telegram"), "Telegram sending failed") EXCEPT
        !.telegram_result = [podcast_sent |-> FALSE, text_sent |-> FALSE,
                             primary_method |-> "failed", attempts |-> <<>>]]

\* The branch of the delivery stage: the audio send delivered (primary), or a
\* text send was attempted in its place (fallback).
TelegramBranch(s, env) ==
    IF s.podcast_result.success /\ send_podcast_sync(env) THEN "primary"
    ELSE IF ~s.podcast_result.success \/ s.meta_summary # "" THEN "fallback"
    ELSE "none"

send_telegram_flag_on_attempt(s, env) ==
    LET s0 == Called(s, "telegram") IN
    IF env.raised THEN TelegramExcept(s0)
    ELSE LET telegram_result == IF s.podcast_result.success
                                THEN send_daily_podcast(s.meta_summary, env)
                                ELSE TextOnly(env)
         IN  [s0 EXCEPT !.telegram_result = telegram_result,
                        !.branch["telegram"] = TelegramBranch(s, env),
                        !.stats.telegram_sent = TRUE]

\* _send_telegram
send_telegram(s, env) ==
    LET s0 == Called(s, "telegram") IN
    IF env.raised THEN TelegramExcept(s0)
    ELSE LET telegram_result == IF s.podcast_result.success
                                THEN send_daily_podcast(s.meta_summary, env)
                                ELSE TextOnly(env)
             s1 == [s0 EXCEPT !.telegram_result = telegram_result,
                              !.branch["telegram"] = TelegramBranch(s, env)]
         IN  IF telegram_result.podcast_sent \/ telegram_result.text_sent
             THEN [s1 EXCEPT !.stats.telegram_sent = TRUE]
             ELSE s1

\* --------------------------------------------------------------- finish
\* podcast_info of _finish_successfully: {} without a podcast; cloud_url only
\* after a successful upload.
PodcastInfo(podcast_result) ==
    IF ~podcast_result.success THEN [empty |-> TRUE]
    ELSE IF podcast_result.cloud_storage.success
    THEN [empty |-> FALSE, local_file |-> podcast_result.local_file,
          duration_minutes |-> podcast_result.duration_minutes,
          file_size_mb |-> podcast_result.file_size_mb,
          cloud_url |-> "url"]
    ELSE [empty |-> FALSE, local_file |-> podcast_result.local_file,
          duration_minutes |-> podcast_result.duration_minutes,
          file_size_mb |-> podcast_result.file_size_mb]

\* _finish_successfully: the result is a success whatever the statistics hold.
finish_by_errors(s) ==
    IF s.stats.errors # <<>>
    THEN finish_with_error(s, "Pipeline exception")
    ELSE [s EXCEPT !.pc = "done",
                   !.result = [status |-> "success",
                               articles_processed |-> Len(s.articles),
                               meta_summary |-> s.meta_summary,
                               podcast |-> PodcastInfo(s.podcast_result),
                               telegram_result |-> s.telegram_result,
                               statistics |-> s.stats]]

finish_successfully(s) ==
    [s EXCEPT !.pc = "done",
              !.result = [status |-> "success",
                          articles_processed |-> Len(s.articles),
                          meta_summary |-> s.meta_summary,
                          podcast |-> PodcastInfo(s.podcast_result),
                          telegram_result |-> s.telegram_result,
                          statistics |-> s.stats]]

\* ------------------------------------------------------- the HTTP layer
\* process_daily_news: the HTTP status returned for the result of
\* run_daily_pipeline(config).
process_daily_news_clean(result) ==
    IF result.status = "success" /\ result.statistics.errors = <<>> THEN 200 ELSE 500

process_daily_news(result) == IF result.status = "success" THEN 200 ELSE 500

\* ------------------------------------------- the pipeline: one invocation
\* The steps of run_daily_pipeline, one per stage call together with the test
\* or return that follows it. The input of a step is what the stage's
\* collaborators did during the call.

\* Step 1 and `if not articles: return self._finish_with_error(...)`.
FetchInputs(maxArticles) ==
    {Fetched(b) : b \in UNION {FeedBatches(n) : n \in 0..maxArticles}} \cup {FetchRaised}

FetchStep(s, f) ==
    LET s1 == fetch_articles(s, f) IN
    IF NoArticles(s1.articles)
    THEN finish_with_error(s1, "No articles fetched from RSS feeds")
    ELSE [s1 EXCEPT !.pc = "extract"]

\* Step 2.
ExtractInputs(s) ==
    {Extracted(c) : c \in [1..Len(s.articles) -> ContentData]} \cup {ExtractRaised}

ExtractStepFatal(s, ex) ==
    LET s1 == extract_content(s, ex) IN
    IF s1.stats.articles_with_content = 0
    THEN finish_with_error(s1, "No article content extracted")
    ELSE [s1 EXCEPT !.pc = "dedup"]

ExtractStep(s, ex) == [extract_content(s, ex) EXCEPT !.pc = "dedup"]

\* Step 3 and `if not articles: return self._finish_with_error(...)`.
DedupInputs(s) == {Deduped(sc) : sc \in Scorings(Len(s.articles))} \cup {DedupRaised}

DedupStep(s, dq) ==
    LET s1 == deduplicate_articles(s, dq) IN
    IF NoArticles(s1.articles)
    THEN finish_with_error(s1, "No articles remaining after deduplication")
    ELSE [s1 EXCEPT !.pc = "summarize"]

\* Step 4.
SummarizeInputs(s) == SummaryRuns(Len(s.articles)) \cup {SummariesRaised}

SummarizeStep(s, sm) == [generate_summaries(s, sm) EXCEPT !.pc = "meta"]

\* Step 5.
MetaInputs == MetaRuns \cup {MetaRaised, MetaInternalError}

MetaStep(s, mr) == [create_meta_summary(s, mr) EXCEPT !.pc = "podcast"]

\* The position after a stage method returned: the next step, unless the method
\* already ended the run.
Then(s, next) == IF s.pc = "done" THEN s ELSE [s EXCEPT !.pc = next]

\* Step 6.
PodcastInputs == TTSRuns \cup {PodcastRaised}

PodcastStepRetry(s, env) ==
    LET s1 == generate_podcast(s, env) IN
    IF s1.podcast_result.success \/ s1.calls["podcast"] >= 2
    THEN Then(s1, "telegram")
    ELSE [s1 EXCEPT !.pc = "podcast"]

PodcastStep(s, env) == Then(generate_podcast(s, env), "telegram")

\* Step 7 and `return self._finish_successfully(articles, meta_summary,
\* podcast_result, telegram_result)`.
TelegramInputs == TelegramRuns \cup {TelegramRaised}

TelegramStepEscapes(s, env) ==
    IF env.raised THEN [Called(s, "telegram") EXCEPT !.pc = "raised"]
    ELSE finish_successfully(send_telegram(s, env))

TelegramStep(s, env) ==
    LET s1 == send_telegram(s, env) IN
    IF s1.pc = "done" THEN s1 ELSE finish_successfully(s1)

\* run_daily_pipeline(config) is called: a NewsProcessor is constructed.
Start(r) ==
    /\ run[r].pc = "idle"
    /\ run' = [run EXCEPT ![r] = NewsProcessor]
    /\ UNCHANGED <<dd, ai, inv>>

Fetch(r) ==
    /\ run[r].pc = "fetch"
    /\ \E f \in FetchInputs(MaxArticles) : run' = [run EXCEPT ![r] = FetchStep(run[r], f)]
    /\ UNCHANGED <<dd, ai, inv>>

Extract(r) ==
    /\ run[r].pc = "extract"
    /\ \E ex \in ExtractInputs(run[r]) : run' = [run EXCEPT ![r] = ExtractStep(run[r], ex)]
    /\ UNCHANGED <<dd, ai, inv>>

Deduplicate(r) ==
    /\ run[r].pc = "dedup"
    /\ \E dq \in DedupInputs(run[r]) : run' = [run EXCEPT ![r] = DedupStep(run[r], dq)]
    /\ UNCHANGED <<dd, ai, inv>>

Summarize(r) ==
    /\ run[r].pc = "summarize"
    /\ \E sm \in SummarizeInputs(run[r]) :
            run' = [run EXCEPT ![r] = SummarizeStep(run[r], sm)]
    /\ UNCHANGED <<dd, ai, inv>>

MetaSummarize(r) ==
    /\ run[r].pc = "meta"
    /\ \E mr \in MetaInputs : run' = [run EXCEPT ![r] = MetaStep(run[r], mr)]
    /\ UNCHANGED <<dd, ai, inv>>

Podcast(r) ==
    /\ run[r].pc = "podcast"
    /\ \E env \in PodcastInputs : run' = [run EXCEPT ![r] = PodcastStep(run[r], env)]
    /\ UNCHANGED <<dd, ai, inv>>

Telegram(r) ==
    /\ run[r].pc = "telegram"
    /\ \E env \in TelegramInputs : run' = [run EXCEPT ![r] = TelegramStep(run[r], env)]
    /\ UNCHANGED <<dd, ai, inv>>

Init ==
    /\ run = [r \in Runs |-> Idle]
    /\ dd = NoCall
    /\ ai = NoCall
    /\ inv = NoInvocations

\* One invocation of the pipeline.
Next ==
    \/ Start(1)
    \/ Fetch(1)
    \/ Extract(1)
    \/ Deduplicate(1)
    \/ Summarize(1)
    \/ MetaSummarize(1)
    \/ Podcast(1)
    \/ Telegram(1)

Spec == Init /\ [][Next]_vars

\* ------------------------------- two invocations that differ in one branch
\* Two invocations given the same inputs at every step, except that at one of
\* the four fallback-policy stages the primary works in invocation 1 and fails
\* in invocation 2, everything else the stage meets being the same.
PrimaryFails(stage, a, b) ==
    /\ ~a.raised /\ ~b.raised
    /\ CASE stage = "summarize" ->
              /\ a.api_available /\ b.api_available
              /\ \E i \in DOMAIN a.responses :
                    /\ a.responses[i] = "text"
                    /\ b.responses = [a.responses EXCEPT ![i] = "raise"]
         [] stage = "meta" ->
              a.api_available /\ a.response = "text" /\ b = [a EXCEPT !.response = "raise"]
         [] stage = "podcast" ->
              a.premium /\ a.google_ok /\ b = [a EXCEPT !.google_ok = FALSE]
         [] stage = "telegram" ->
              a.configured /\ a.audio_ok /\ b = [a EXCEPT !.audio_ok = FALSE]

\* The inputs of the two invocations at a stage: the same, or, while the
\* invocations have not differed yet, differing in the outcome of the primary.
SameUnlessPrimaryFails(stage, a, b) ==
    \/ a = b
    \/ run[1] = run[2] /\ PrimaryFails(stage, a, b)

Both(pc) == \A r \in Runs : run[r].pc = pc

PairStart ==
    /\ Both("idle")
    /\ run' = [r \in Runs |-> NewsProcessor]
    /\ UNCHANGED <<dd, ai, inv>>

PairFetch ==
    /\ Both("fetch")
    /\ \E f \in FetchInputs(MaxArticles) : run' = [r \in Runs |-> FetchStep(run[r], f)]
    /\ UNCHANGED <<dd, ai, inv>>

PairExtract ==
    /\ Both("extract")
    /\ \E ex \in ExtractInputs(run[1]) : run' = [r \in Runs |-> ExtractStep(run[r], ex)]
    /\ UNCHANGED <<dd, ai, inv>>

PairDeduplicate ==
    /\ Both("dedup")
    /\ \E dq \in DedupInputs(run[1]) : run' = [r \in Runs |-> DedupStep(run[r], dq)]
    /\ UNCHANGED <<dd, ai, inv>>

PairSummarize ==
    /\ Both("summarize")
    /\ \E a \in SummarizeInputs(run[1]), b \in SummarizeInputs(run[2]) :
         /\ SameUnlessPrimaryFails("summarize", a, b)
         /\ run' = [run EXCEPT ![1] = SummarizeStep(run[1], a),
                               ![2] = SummarizeStep(run[2], b)]
    /\ UNCHANGED <<dd, ai, inv>>

PairMetaSummarize ==
    /\ Both("meta")
    /\ \E a \in MetaInputs, b \in MetaInputs :
         /\ SameUnlessPrimaryFails("meta", a, b)
         /\ run' = [run EXCEPT ![1] = MetaStep(run[1], a), ![2] = MetaStep(run[2], b)]
    /\ UNCHANGED <<dd, ai, inv>>

PairPodcast ==
    /\ Both("podcast")
    /\ \E a \in PodcastInputs, b \in PodcastInputs :
         /\ SameUnlessPrimaryFails("podcast", a, b)
         /\ run' = [run EXCEPT ![1] = PodcastStep(run[1], a), ![2] = PodcastStep(run[2], b)]
    /\ UNCHANGED <<dd, ai, inv>>

PairTelegram ==
    /\ Both("telegram")
    /\ \E a \in TelegramInputs, b \in TelegramInputs :
         /\ SameUnlessPrimaryFails("telegram", a, b)
         /\ run' = [run EXCEPT ![1] = TelegramStep(run[1], a), ![2] = TelegramStep(run[2], b)]
    /\ UNCHANGED <<dd, ai, inv>>

PairNext ==
    \/ PairStart
    \/ PairFetch
    \/ PairExtract
    \/ PairDeduplicate
    \/ PairSummarize
    \/ PairMetaSummarize
    \/ PairPodcast
    \/ PairTelegram

SpecPair == Init /\ [][PairNext]_vars

\* ------------------------------------------- two concurrent invocations
\* run_daily_pipeline(config) constructs its own NewsProcessor, whose stats
\* dict is an instance attribute set in __init__, and keeps articles,
\* meta_summary, podcast_result and telegram_result in locals: a step of
\* invocation r writes the state of r only.
WriteSharedStats(r, s) ==
    [q \in Runs |-> IF q = r THEN s ELSE [run[q] EXCEPT !.stats = s.stats]]

WriteRun(r, s) == [run EXCEPT ![r] = s]

\* The step run_daily_pipeline takes at s.pc, given what the stage met.
StepOf(s, in) ==
    CASE s.pc = "fetch" -> FetchStep(s, in)
      [] s.pc = "extract" -> ExtractStep(s, in)
      [] s.pc = "dedup" -> DedupStep(s, in)
      [] s.pc = "summarize" -> SummarizeStep(s, in)
      [] s.pc = "meta" -> MetaStep(s, in)
      [] s.pc = "podcast" -> PodcastStep(s, in)
      [] s.pc = "telegram" -> TelegramStep(s, in)

\* Everything the stage at s.pc can meet.
StepInputs(s) ==
    CASE s.pc = "fetch" -> FetchInputs(MaxArticles)
      [] s.pc = "extract" -> ExtractInputs(s)
      [] s.pc = "dedup" -> DedupInputs(s)
      [] s.pc = "summarize" -> SummarizeInputs(s)
      [] s.pc = "meta" -> MetaInputs
      [] s.pc = "podcast" -> PodcastInputs
      [] s.pc = "telegram" -> TelegramInputs

\* What the stages of the two concurrent invocations meet: each stage either
\* raises or meets collaborators that all work; the feeds give MaxArticles
\* articles, whose pairs all get the same score.
ConcurrentInputs(s) ==
    LET n == Len(s.articles) IN
    CASE s.pc = "fetch" ->
            {FetchRaised} \cup
            {Fetched(b) : b \in {c \in FeedBatches(MaxArticles) :
                                    \A i \in 1..MaxArticles : c[i].summary = "rss"}}
      [] s.pc = "extract" ->
            {ExtractRaised,
             Extracted([i \in 1..n |->
                          [full_text |-> MaxLen, extraction_successful |-> TRUE]])}
      [] s.pc = "dedup" ->
            {DedupRaised, Deduped(ScoringRaised)} \cup
            {Deduped(Scored([p \in Pairs(n) |-> sc])) : sc \in Scores}
      [] s.pc = "summarize" ->
            {SummariesRaised} \cup
            {sm \in SummaryRuns(n) : \A i \in 1..n : sm.responses[i] = "text"}
      [] s.pc = "meta" ->
            {MetaRaised} \cup {mr \in MetaRuns : mr.api_available /\ mr.response = "text"}
      [] s.pc = "podcast" ->
            {PodcastRaised} \cup
            {env \in TTSRuns : /\ env.premium /\ env.google_ok /\ env.espeak_ok
                               /\ env.audio_ok /\ env.cloud_ok}
      [] s.pc = "telegram" ->
            {TelegramRaised} \cup
            {env \in TelegramRuns : env.configured /\ env.audio_ok /\ env.text_ok}

\* Invocation r runs the stage it is at.
RunStage(r, stage) ==
    /\ run[r].pc = stage
    /\ \E in \in ConcurrentInputs(run[r]) : run' = WriteRun(r, StepOf(run[r], in))
    /\ UNCHANGED <<dd, ai, inv>>

ConcurrentStart(r) ==
    /\ run[r].pc = "idle"
    /\ run' = WriteRun(r, NewsProcessor)
    /\ UNCHANGED <<dd, ai, inv>>

ConcurrentFetch(r) == RunStage(r, "fetch")
ConcurrentExtract(r) == RunStage(r, "extract")
ConcurrentDeduplicate(r) == RunStage(r, "dedup")
ConcurrentSummarize(r) == RunStage(r, "summarize")
ConcurrentMetaSummarize(r) == RunStage(r, "meta")
ConcurrentPodcast(r) == RunStage(r, "podcast")
ConcurrentTelegram(r) == RunStage(r, "telegram")

\* Two invocations, their steps interleaved in any order.
ConcurrentNext ==
    \E r \in Runs :
        \/ ConcurrentStart(r)
        \/ ConcurrentFetch(r)
        \/ ConcurrentExtract(r)
        \/ ConcurrentDeduplicate(r)
        \/ ConcurrentSummarize(r)
        \/ ConcurrentMetaSummarize(r)
        \/ ConcurrentPodcast(r)
        \/ ConcurrentTelegram(r)

SpecConcurrent == Init /\ [][ConcurrentNext]_vars

\* ------------------------------------- one invocation, its calls recorded
\* One entry of inv: for one input of a stage (an article, the combined
\* summaries, the script, the podcast file), whether the stage handled it by
\* its primary/fallback pair at all, how often it called the primary and the
\* fallback, whether the primary was available and whether its call failed.
Invoked(input, handled, primary, fallback, available, failed) ==
    [input |-> input, handled |-> handled, primary |-> primary, fallback |-> fallback,
     available |-> available, primary_failed |-> failed]

\* The loop body of process_article_summaries and summarize: one session.post
\* when the API is available, _fallback_summary when it is not or the post
\* raised; an article without full_text does not reach summarize.
summarize_invocations_retry(article, api_available, response) ==
    IF article.full_text = 0 THEN Invoked(article.id, FALSE, 0, 0, api_available, FALSE)
    ELSE IF ~api_available THEN Invoked(article.id, TRUE, 0, 1, FALSE, FALSE)
    ELSE IF response = "raise" THEN Invoked(article.id, TRUE, 2, 1, TRUE, TRUE)
    ELSE Invoked(article.id, TRUE, 1, 0, TRUE, FALSE)

summarize_invocations(article, api_available, response) ==
    IF article.full_text = 0 THEN Invoked(article.id, FALSE, 0, 0, api_available, FALSE)
    ELSE IF ~api_available THEN Invoked(article.id, TRUE, 0, 1, FALSE, FALSE)
    ELSE IF response = "raise" THEN Invoked(article.id, TRUE, 1, 1, TRUE, TRUE)
    ELSE Invoked(article.id, TRUE, 1, 0, TRUE, FALSE)

\* generate_meta_summary: _ai_meta_summarize (one session.post, whose except
\* clause calls _fallback_meta_summary) when the API is available,
\* _fallback_meta_summary when it is not; neither without a valid summary.
meta_invocations(articles, mr) ==
    IF \A i \in 1..Len(articles) : ~ValidSummary(articles[i])
    THEN Invoked(1, FALSE, 0, 0, mr.api_available, FALSE)
    ELSE IF ~mr.api_available THEN Invoked(1, TRUE, 0, 1, FALSE, FALSE)
    ELSE IF mr.response = "raise" THEN Invoked(1, TRUE, 1, 1, TRUE, TRUE)
    ELSE Invoked(1, TRUE, 1, 0, TRUE, FALSE)

\* generate_speech: text_to_speech_google (whose except clause calls
\* text_to_speech_espeak) when premium, text_to_speech_espeak when not.
speech_invocations(env) ==
    IF ~env.premium THEN Invoked(1, TRUE, 0, 1, FALSE, FALSE)
    ELSE IF ~env.google_ok THEN Invoked(1, TRUE, 1, 1, TRUE, TRUE)
    ELSE Invoked(1, TRUE, 1, 0, TRUE, FALSE)

\* _send_telegram: send_podcast_sync is the primary, available when there is
\* a podcast; send_text_summary_sync the fallback.
telegram_invocations(s, env) ==
    LET tr == send_telegram(s, env).telegram_result
        audio == Cardinality({i \in 1..Len(tr.attempts) : tr.attempts[i] = "audio"})
        text == Cardinality({i \in 1..Len(tr.attempts) : tr.attempts[i] = "text"})
    IN  Invoked(1, TRUE, audio, text, s.podcast_result.success,
                audio > 0 /\ ~tr.podcast_sent)

\* The calls the stage at s.pc makes, given what it met. A stage method whose
\* try block raised had not reached its primary.
InvocationsOf(s, in) ==
    IF in.raised THEN <<>>
    ELSE CASE s.pc = "summarize" ->
                [i \in 1..Len(s.articles) |->
                    summarize_invocations(s.articles[i], in.api_available,
                                          in.responses[i])]
           [] s.pc = "meta" ->
                IF in.internal_error THEN <<>>
                ELSE <<meta_invocations(s.articles, in)>>
           [] s.pc = "podcast" -> <<speech_invocations(in)>>
           [] s.pc = "telegram" -> <<telegram_invocations(s, in)>>

\* What the stages of the invocation meet: MaxArticles articles from the
\* feeds, whose pairs all get the same score; everything the extraction, the
\* summarizers, the synthesis and the delivery can meet.
RecordedInputs(s) ==
    IF s.pc \in {"fetch", "dedup"} THEN ConcurrentInputs(s) ELSE StepInputs(s)

\* Invocation 1 runs the stage it is at; the calls it makes are recorded.
RecordedStage(stage) ==
    /\ run[1].pc = stage
    /\ \E in \in RecordedInputs(run[1]) :
          /\ run' = WriteRun(1, StepOf(run[1], in))
          /\ inv' = IF stage \in FallbackStages
                    THEN [inv EXCEPT ![stage] = InvocationsOf(run[1], in)]
                    ELSE inv
    /\ UNCHANGED <<dd, ai>>

RecordedStart ==
    /\ run[1].pc = "idle"
    /\ run' = WriteRun(1, NewsProcessor)
    /\ UNCHANGED <<dd, ai, inv>>

RecordedFetch == RecordedStage("fetch")
RecordedExtract == RecordedStage("extract")
RecordedDeduplicate == RecordedStage("dedup")
RecordedSummarize == RecordedStage("summarize")
RecordedMetaSummarize == RecordedStage("meta")
RecordedPodcast == RecordedStage("podcast")
RecordedTelegram == RecordedStage("telegram")

RecordedNext ==
    \/ RecordedStart
    \/ RecordedFetch
    \/ RecordedExtract
    \/ RecordedDeduplicate
    \/ RecordedSummarize
    \/ RecordedMetaSummarize
    \/ RecordedPodcast
    \/ RecordedTelegram

SpecInvocations == Init /\ [][RecordedNext]_vars

\* The stage steps of the invocation. run_daily_pipeline is one sequential
\* function: once called it goes on to its next stage call, and every
\* collaborator call returns or raises, so a stage step that can be taken is
\* eventually taken.
StageSteps ==
    \/ RecordedFetch
    \/ RecordedExtract
    \/ RecordedDeduplicate
    \/ RecordedSummarize
    \/ RecordedMetaSummarize
    \/ RecordedPodcast
    \/ RecordedTelegram

SpecLive == Init /\ [][RecordedNext]_vars /\ WF_vars(StageSteps)

\* --------------------------------------- the deduplication specification
\* A batch of n articles with every combination of full_text lengths.
Batches(n) == {[i \in 1..n |-> Article(i, "rss", l[i], l[i] > 0)] : l \in [1..n -> Lens]}

\* The batch one call of remove_duplicates is given.
DDInit ==
    /\ run = [r \in Runs |-> Idle]
    /\ ai = NoCall
    /\ inv = NoInvocations
    /\ \E n \in 0..MaxBatch :
        \E b \in Batches(n) : dd = [pc |-> "ready", articles |-> b]

\* remove_duplicates(articles, similarity_threshold) is called and returns; the
\* scores are those its scoring block computed during the call.
DDRemoveDuplicates ==
    /\ dd.pc = "ready"
    /\ \E t \in Thresholds, sc \in Scorings(Len(dd.articles)) :
        dd' = [pc |-> "returned",
               articles |-> ArticlesAfterLoop(dd.articles,
                               find_duplicates(dd.articles, sc, t).articles_to_remove),
               scoring |-> sc,
               threshold |-> t,
               result |-> remove_duplicates(dd.articles, sc, t)]
    /\ UNCHANGED <<run, ai, inv>>

DDNext == DDRemoveDuplicates

SpecDedup == DDInit /\ [][DDNext]_vars

\* ----------------------------------------- the summarizer specification
\* The value of the ai_summary cell of a DataFrame row: the text kinds the
\* summarization stage writes, "none" for a missing column (row.get gives ''),
\* "NAN" for a missing cell.
SummaryCells == {"AI", "", "FB", "RSS", "SENTINEL", "none", "NAN"}

\* The DataFrames of n rows.
Frames(n) == {[i \in 1..n |-> [ai_summary |-> c[i]]] : c \in [1..n -> SummaryCells]}

\* One call of summarize(text) or of generate_meta_summary(articles_df) on an
\* AISummarizer that found the API available or not.
AIInit ==
    /\ run = [r \in Runs |-> Idle]
    /\ dd = NoCall
    /\ inv = NoInvocations
    /\ \E a \in BOOLEAN, resp \in Responses :
          \/ \E t \in Texts :
                ai = [pc |-> "ready", method |-> "summarize", text |-> t,
                      api_available |-> a, response |-> resp]
          \/ \E n \in 0..MaxBatch : \E df \in Frames(n) :
                ai = [pc |-> "ready", method |-> "generate_meta_summary",
                      articles_df |-> df, api_available |-> a, response |-> resp]

\* summarize(text) is called and returns.
AISummarize ==
    /\ ai.pc = "ready"
    /\ ai.method = "summarize"
    /\ ai' = [pc |-> "returned", method |-> ai.method, text |-> ai.text,
              api_available |-> ai.api_available, response |-> ai.response,
              returned |-> summarize(ai.text, ai.api_available, ai.response)]
    /\ UNCHANGED <<run, dd, inv>>

\* generate_meta_summary(articles_df) is called and returns.
AIMetaSummary ==
    /\ ai.pc = "ready"
    /\ ai.method = "generate_meta_summary"
    /\ ai' = [pc |-> "returned", method |-> ai.method, articles_df |-> ai.articles_df,
              api_available |-> ai.api_available, response |-> ai.response,
              returned |-> generate_meta_summary(ai.articles_df, ai.api_available,
                                                 ai.response)]
    /\ UNCHANGED <<run, dd, inv>>

AINext == AISummarize \/ AIMetaSummary

SpecSummarizer == AIInit /\ [][AINext]_vars

\* ---------------------------------------------- claims on the pipeline
\* The stages that follow the fetch stage.
LaterStages == Stages \ {"fetch"}

\* The fetch stage of the invocation returned, and returned an empty list (it
\* fetched nothing, or raised and its except clause returned []).
FetchedNothing(s) == s.calls["fetch"] = 1 /\ s.stats.articles_fetched = 0

\* C1: when the fetch stage yields an empty list the run returns status
\* 'error' with the message that no articles were fetched, no article is
\* counted as processed by any counter of the returned statistics (the error
\* result has no articles_processed entry of its own), and none of the extract,
\* dedup, summarize, meta, podcast and telegram stages is invoked.
C1_EmptyFetchIsError ==
    \A r \in Runs :
        FetchedNothing(run[r]) =>
            /\ run[r].pc = "done"
            /\ run[r].result.status = "error"
            /\ run[r].result.error = "No articles fetched from RSS feeds"
            /\ run[r].result.statistics.articles_fetched = 0
            /\ run[r].result.statistics.articles_with_content = 0
            /\ run[r].result.statistics.articles_after_deduplication = 0
            /\ run[r].result.statistics.ai_summaries_generated = 0
            /\ \A st \in LaterStages : run[r].calls[st] = 0

\* A run whose feeds returned an empty list without raising.
C1_Witness ==
    /\ FetchedNothing(run[1])
    /\ run[1].result.status = "error"
    /\ run[1].stats.errors = <<"No articles fetched from RSS feeds">>

\* The delivery stage of the invocation returned without having delivered
\* anything.
DeliveryFailed(s) ==
    /\ s.calls["telegram"] = 1
    /\ ~s.telegram_result.podcast_sent
    /\ ~s.telegram_result.text_sent

\* C3: a run that got past deduplication and whose delivery failed (both sends
\* failed, Telegram is not configured, or the stage raised) returns status
\* 'success' with statistics.telegram_sent false.
C3_DeliveryFailureNotFatal ==
    \A r \in Runs :
        DeliveryFailed(run[r]) =>
            /\ run[r].pc = "done"
            /\ run[r].calls["dedup"] = 1
            /\ run[r].result.status = "success"
            /\ run[r].result.statistics.telegram_sent = FALSE

\* A run with a podcast and a meta summary whose delivery stage raised.
C3_Witness ==
    /\ DeliveryFailed(run[1])
    /\ run[1].podcast_result.success
    /\ run[1].stats.errors = <<"Telegram sending failed">>
    /\ run[1].result.status = "success"
    /\ ~run[1].result.statistics.telegram_sent

\* The number of invocations each stage must have had at a position, once the
\* summarization stage has been invoked.
CallsAt(pc, st) ==
    CASE st = "meta" -> IF pc = "meta" THEN 0 ELSE 1
      [] st = "podcast" -> IF pc \in {"meta", "podcast"} THEN 0 ELSE 1
      [] st = "telegram" -> IF pc = "done" THEN 1 ELSE 0
      [] OTHER -> 1

\* C4: whatever the summarize, meta and podcast stages meet (primary failing,
\* fallback used, exception caught by the stage method), each later stage is
\* invoked exactly once, the result carries the output the stages produced
\* (placeholder text and absent podcast included), and the run ends with status
\* 'success'.
C4_DegradationNotFatal ==
    \A r \in Runs :
        run[r].calls["summarize"] >= 1 =>
            /\ run[r].pc \in {"meta", "podcast", "telegram", "done"}
            /\ \A st \in Stages : run[r].calls[st] = CallsAt(run[r].pc, st)
            /\ run[r].pc = "done" =>
                  /\ run[r].result.status = "success"
                  /\ run[r].result.meta_summary = run[r].meta_summary
                  /\ run[r].result.podcast = PodcastInfo(run[r].podcast_result)

\* A run in which the three stages raised one after the other and that still
\* invoked delivery once and ended as a success carrying the placeholder.
C4_Witness ==
    /\ run[1].pc = "done"
    /\ run[1].stats.errors = <<"Summary generation failed", "Meta-summary creation failed",
                               "Podcast generation failed: exception">>
    /\ run[1].calls["telegram"] = 1
    /\ run[1].result.status = "success"
    /\ run[1].result.meta_summary = "PLACEHOLDER"
    /\ run[1].result.podcast = [empty |-> TRUE]

\* The deduplication stage of the invocation returned and left an empty batch.
DedupLeftNothing(s) == s.calls["dedup"] = 1 /\ s.articles = <<>>

\* C5: a finished run has status 'error' only when the fetched batch was empty
\* or the batch left by deduplication was empty (no exception escapes the
\* stage methods, which catch every Exception); any other finished run has
\* status 'success', whatever statistics.errors, podcast_created and
\* telegram_sent hold.
C5_ErrorOnlyWhenFatal ==
    \A r \in Runs :
        run[r].pc = "done" =>
            /\ run[r].result.status \in {"success", "error"}
            /\ run[r].result.status = "error" <=>
                   (FetchedNothing(run[r]) \/ DedupLeftNothing(run[r]))

\* A success whose statistics hold errors, no podcast and no delivery.
C5_Witness ==
    /\ run[1].pc = "done"
    /\ run[1].result.status = "success"
    /\ run[1].result.statistics.errors # <<>>
    /\ ~run[1].result.statistics.podcast_created
    /\ ~run[1].result.statistics.telegram_sent
    /\ ~FetchedNothing(run[1])

\* The articles of the invocation for which the summarization primary failed
\* (raised or was unavailable): those the extractive fallback summarised.
PrimaryFailedFor(s) == {i \in 1..Len(s.articles) : s.articles[i].ai_summary = "FB"}

\* The fallback count the statistics give: they have no counter of fallbacks,
\* and the number the stage reports as fallback summaries is the batch size
\* less ai_summaries_generated.
FallbackCount(stats) == stats.articles_after_deduplication - stats.ai_summaries_generated

\* C9: when the summarization primary failed for k articles of a run, the
\* statistics the run returns record a fallback count of exactly k.
C9_FallbackCountExact ==
    \A r \in Runs :
        (run[r].pc = "done" /\ PrimaryFailedFor(run[r]) # {}) =>
            FallbackCount(run[r].result.statistics) = Cardinality(PrimaryFailedFor(run[r]))

\* C10: two runs that differ only in whether a stage's primary succeeded or
\* its fallback was used never return the same result.
C10_BranchObservable ==
    Both("done") =>
        \A st \in FallbackStages :
            (run[1].branch[st] = "primary" /\ run[2].branch[st] = "fallback") =>
                run[1].result # run[2].result

\* The extraction stage of the invocation returned and no article was
\* extracted: every extraction failed, or the stage raised.
AllExtractionFailed(s) == s.calls["extract"] = 1 /\ s.stats.articles_with_content = 0

\* C11: a run in which the extraction of every article failed still enters
\* the deduplication stage, which takes the feed summary of every article as
\* the text to compare, and the run goes on to invoke the stage once and to
\* return status 'success' when an article is left.
C11_NoContentStillDedups ==
    \A r \in Runs :
        AllExtractionFailed(run[r]) =>
            /\ run[r].pc \in {"dedup", "summarize", "meta", "podcast", "telegram", "done"}
            /\ \A i \in 1..Len(run[r].articles) : run[r].articles[i].full_text = 0
            /\ run[r].pc = "dedup" =>
                  \A i \in 1..Len(run[r].articles) :
                      text_content(run[r].articles[i]) = "summary"
            /\ run[r].pc # "dedup" => run[r].calls["dedup"] = 1
            /\ (run[r].pc = "done" /\ run[r].articles # <<>>) =>
                  run[r].result.status = "success"

\* Two articles whose extraction failed, one of them removed as a duplicate
\* of the other by their feed summaries, and the run a success.
C11_Witness ==
    /\ AllExtractionFailed(run[1])
    /\ run[1].stats.articles_fetched = 2
    /\ run[1].stats.duplicates_removed = 1
    /\ run[1].stats.errors = <<>>
    /\ run[1].pc = "done"
    /\ run[1].result.status = "success"
    /\ run[1].result.articles_processed = 1

\* The articles of a batch by the position the feeds returned them at.
Ids(articles) == [i \in 1..Len(articles) |-> articles[i].id]

\* C12: the extraction step and the summarization step hand on a batch with
\* the same articles in the same order as the batch they received, whatever
\* fails per article and also when the stage raises.
C12_BatchShapeKept ==
    [][\A r \in Runs :
          run[r].pc \in {"extract", "summarize"} =>
              Ids(run'[r].articles) = Ids(run[r].articles)]_vars

\* Two articles after both stages: the extraction of the second failed and it
\* has no summary, the first was summarised by the extractive fallback, and
\* the batch is still the two articles in feed order.
C12_Witness ==
    /\ run[1].pc = "meta"
    /\ Ids(run[1].articles) = <<1, 2>>
    /\ run[1].articles[1].ai_summary = "FB"
    /\ ~run[1].articles[2].extraction_successful
    /\ run[1].articles[2].ai_summary = ""

\* The message the except clause of a stage method appends to the errors.
StageMessage(st) ==
    CASE st = "fetch" -> "RSS fetching failed"
      [] st = "extract" -> "Content extraction failed"
      [] st = "dedup" -> "Deduplication failed"
      [] st = "summarize" -> "Summary generation failed"
      [] st = "meta" -> "Meta-summary creation failed"
      [] st = "podcast" -> "Podcast generation failed: exception"
      [] st = "telegram" -> "Telegram sending failed"

\* C13: for every stage during whose work an internal error was raised
\* (similarity scoring and meta-summary generation included), the statistics
\* hold the stage's error message, and the run was not aborted by the error.
C13_InternalErrorsRecorded ==
    \A r \in Runs :
        /\ \A st \in run[r].faults :
              \E i \in 1..Len(run[r].stats.errors) :
                  run[r].stats.errors[i] = StageMessage(st)
        /\ run[r].pc = "done" => run[r].result.error # "Pipeline exception"

\* The run ended at one of the two fatal tests of run_daily_pipeline.
Fatal(s) == FetchedNothing(s) \/ DedupLeftNothing(s)

\* C14: the HTTP status of /process-news is 200 exactly when the result has
\* status 'success' and 500 otherwise, and it is decided by the fatal /
\* non-fatal distinction alone: every run that did not end fatally gets 200,
\* whatever podcast_created, telegram_sent, the summaries and
\* statistics.errors are.
C14_HttpStatusByFatality ==
    \A r \in Runs :
        run[r].pc = "done" =>
            /\ process_daily_news(run[r].result) = 200 <=> run[r].result.status = "success"
            /\ process_daily_news(run[r].result) = 500 <=> run[r].result.status # "success"
            /\ process_daily_news(run[r].result) = 200 <=> ~Fatal(run[r])

\* A degraded run (errors recorded, a fallback summary, no podcast, nothing
\* delivered) that is answered with 200.
C14_Witness ==
    /\ run[1].pc = "done"
    /\ run[1].stats.errors # <<>>
    /\ PrimaryFailedFor(run[1]) # {}
    /\ ~run[1].stats.podcast_created
    /\ ~run[1].stats.telegram_sent
    /\ process_daily_news(run[1].result) = 200

\* The entries of a RunResult next to status.
RunResultFields ==
    {"articles_processed", "meta_summary", "podcast", "telegram_result", "statistics"}

\* C15: every result run_daily_pipeline returns, success or error, has a
\* status of 'success' or 'error' and holds the articles processed, the meta
\* summary, the podcast info, the delivery result and the statistics.
C15_WellFormedResult ==
    \A r \in Runs :
        run[r].pc = "done" =>
            /\ run[r].result.status \in {"success", "error"}
            /\ RunResultFields \subseteq DOMAIN run[r].result

\* The position that follows a position in run_daily_pipeline.
Successor(pc) ==
    CASE pc = "idle" -> "fetch"
      [] pc = "fetch" -> "extract"
      [] pc = "extract" -> "dedup"
      [] pc = "dedup" -> "summarize"
      [] pc = "summarize" -> "meta"
      [] pc = "meta" -> "podcast"
      [] pc = "podcast" -> "telegram"
      [] pc = "telegram" -> "done"
      [] pc = "done" -> "done"

\* C16: every step of a run performs the stage the run is at, for the first
\* and only time, and moves to the next stage in the order fetch, extract,
\* dedup, summarize, meta, podcast, telegram, finalized; the only other move is
\* to finalized, from the tests after fetch and dedup; a finalized run takes no
\* further step.
C16_LinearStages ==
    [][\A r \in Runs :
          /\ run[r].pc = "done" => run'[r] = run[r]
          /\ run'[r] # run[r] =>
                /\ run'[r].pc \in {Successor(run[r].pc), "done"}
                /\ run'[r].pc # run[r].pc
                /\ (run'[r].pc = "done" /\ Successor(run[r].pc) # "done") =>
                       /\ run[r].pc \in {"fetch", "dedup"}
                       /\ run'[r].result.status = "error"
                /\ \A st \in Stages :
                       run'[r].calls[st] =
                           IF st = run[r].pc THEN 1 ELSE run[r].calls[st]
                /\ run[r].pc \in Stages => run[r].calls[run[r].pc] = 0]_vars

\* A run that went through the seven stages, each invoked once, and was
\* finalized as a success.
C16_Witness ==
    /\ run[1].pc = "done"
    /\ \A st \in Stages : run[1].calls[st] = 1
    /\ run[1].result.status = "success"
    /\ run[1].faults = {}

\* The counters of self.stats and the step of the stage that writes each.
Counters ==
    {"articles_fetched", "articles_with_content", "articles_after_deduplication",
     "duplicates_removed", "ai_summaries_generated"}

CounterStage(c) ==
    CASE c = "articles_fetched" -> "fetch"
      [] c = "articles_with_content" -> "extract"
      [] c \in {"articles_after_deduplication", "duplicates_removed"} -> "dedup"
      [] c = "ai_summaries_generated" -> "summarize"

\* The step from s to t ran the except clause of the stage method of s.pc.
StageRaised(s, t) ==
    /\ s.pc \in Stages
    /\ \E i \in (Len(s.stats.errors) + 1)..Len(t.stats.errors) :
          t.stats.errors[i] = StageMessage(s.pc)

\* C17: a step writes only the counters of its own stage (each stage runs
\* once, so each counter is written at most once); a stage that raised leaves
\* every counter as it was and only appends to statistics.errors; a stage
\* that completed leaves its counters at their final, complete values.
C17_CountersWrittenOnce ==
    [][\A r \in Runs :
          run'[r] # run[r] =>
              /\ \A c \in Counters :
                    CounterStage(c) # run[r].pc => run'[r].stats[c] = run[r].stats[c]
              /\ Len(run'[r].stats.errors) >= Len(run[r].stats.errors)
              /\ SubSeq(run'[r].stats.errors, 1, Len(run[r].stats.errors))
                     = run[r].stats.errors
              /\ StageRaised(run[r], run'[r]) =>
                    \A c \in Counters : run'[r].stats[c] = run[r].stats[c]
              /\ ~StageRaised(run[r], run'[r]) =>
                    /\ run[r].pc = "fetch" =>
                          run'[r].stats.articles_fetched = Len(run'[r].articles)
                    /\ run[r].pc = "extract" =>
                          run'[r].stats.articles_with_content
                              = CountSuccessful(run'[r].articles)
                    /\ run[r].pc = "dedup" =>
                          /\ run'[r].stats.articles_after_deduplication
                                 = Len(run'[r].articles)
                          /\ run'[r].stats.duplicates_removed
                                 = Len(run[r].articles) - Len(run'[r].articles)
                    /\ run[r].pc = "summarize" =>
                          run'[r].stats.ai_summaries_generated
                              = CountAISummaries(run'[r].articles)]_vars

\* A finished run whose dedup stage raised: its two counters are still 0 and
\* the counters of the stages that completed hold their values.
C17_Witness ==
    /\ run[1].pc = "done"
    /\ run[1].stats.errors = <<"Deduplication failed">>
    /\ run[1].stats.articles_fetched = 2
    /\ run[1].stats.articles_with_content = 2
    /\ run[1].stats.articles_after_deduplication = 0
    /\ run[1].stats.duplicates_removed = 0
    /\ run[1].stats.ai_summaries_generated = 2

\* C18: in every success result the processed count is the post-dedup
\* counter, and both equal the fetched count minus the removed duplicates.
C18_ProcessedCountConsistent ==
    \A r \in Runs :
        run[r].result.status = "success" =>
            /\ run[r].result.articles_processed
                   = run[r].result.statistics.articles_after_deduplication
            /\ run[r].result.articles_processed
                   = run[r].result.statistics.articles_fetched
                       - run[r].result.statistics.duplicates_removed

\* The states one step of an invocation at s, running alone, can leave it in.
SoloSteps(s) ==
    IF s.pc = "idle" THEN {NewsProcessor}
    ELSE IF s.pc = "done" THEN {}
    ELSE {StepOf(s, in) : in \in StepInputs(s)}

Attempts(s) == s.telegram_result.attempts

Attempted(s, kind) == \E i \in 1..Len(Attempts(s)) : Attempts(s)[i] = kind

\* C23: once the delivery stage has returned, an audio send was attempted only
\* if podcast generation succeeded; a text send was attempted only alone when
\* there is no podcast, or after a failed audio send with a non-empty summary;
\* after a successful audio send nothing else was sent; podcast_sent and
\* text_sent are never both true; and primary_method is 'audio' iff
\* podcast_sent, 'text' iff text_sent, 'failed' iff neither.
C23_DeliveryOrdering ==
    \A r \in Runs :
        run[r].calls["telegram"] = 1 =>
            LET s == run[r]
                tr == run[r].telegram_result
            IN  /\ Attempted(s, "audio") => s.podcast_result.success
                /\ Attempted(s, "text") =>
                      \/ ~s.podcast_result.success /\ Attempts(s) = <<"text">>
                      \/ /\ s.podcast_result.success
                         /\ Attempts(s) = <<"audio", "text">>
                         /\ ~tr.podcast_sent
                         /\ s.meta_summary # ""
                /\ tr.podcast_sent => Attempts(s) = <<"audio">>
                /\ tr.text_sent => Attempted(s, "text")
                /\ ~(tr.podcast_sent /\ tr.text_sent)
                /\ tr.primary_method \in {"audio", "text", "failed"}
                /\ tr.primary_method = "audio" <=> tr.podcast_sent
                /\ tr.primary_method = "text" <=> tr.text_sent
                /\ tr.primary_method = "failed" <=> (~tr.podcast_sent /\ ~tr.text_sent)

\* A finished run whose podcast was generated, whose audio send failed and
\* whose text send then went through.
C23_Witness ==
    /\ run[1].pc = "done"
    /\ run[1].podcast_result.success
    /\ run[1].telegram_result.attempts = <<"audio", "text">>
    /\ ~run[1].telegram_result.podcast_sent
    /\ run[1].telegram_result.text_sent
    /\ run[1].telegram_result.primary_method = "text"
    /\ run[1].result.status = "success"

\* The branch an input of a stage took, by the calls made for it.
BranchOf(e) ==
    IF e.primary >= 1 /\ ~e.primary_failed THEN "primary"
    ELSE IF e.fallback >= 1 THEN "fallback"
    ELSE "none"

\* C24: for every input of a fallback stage the primary is called at most
\* once and only when available, the fallback at most once and only when the
\* primary was unavailable or its call failed; each article is an input of the
\* summarization once and the other stages have one input; the branch taken is
\* decided by the availability and the outcome of the primary, and it is the
\* branch whose output the run holds.
C24_NoHiddenRetries ==
    /\ \A st \in FallbackStages :
          /\ \A k \in 1..Len(inv[st]) :
                LET e == inv[st][k]
                IN  /\ e.primary <= 1
                    /\ e.fallback <= 1
                    /\ e.primary = 1 => e.handled /\ e.available
                    /\ e.primary_failed => e.primary = 1
                    /\ e.fallback = 1 =>
                          /\ e.handled
                          /\ \/ ~e.available /\ e.primary = 0
                             \/ e.primary = 1 /\ e.primary_failed
                    /\ BranchOf(e) = "primary" <=>
                          (e.handled /\ e.available /\ ~e.primary_failed)
          /\ \A k, l \in 1..Len(inv[st]) : inv[st][k].input = inv[st][l].input => k = l
          /\ st # "summarize" => Len(inv[st]) <= 1
    /\ Len(inv["summarize"]) > 0 =>
          /\ Len(inv["summarize"]) = Len(run[1].articles)
          /\ \A k \in 1..Len(run[1].articles) :
                LET e == inv["summarize"][k]
                    a == run[1].articles[k]
                IN  /\ e.input = a.id
                    /\ e.handled <=> a.full_text > 0
                    /\ BranchOf(e) = "fallback" <=> a.ai_summary = fallback_summary
                    /\ BranchOf(e) = "primary" <=>
                          (a.full_text > 0 /\ a.ai_summary \in {"AI", ""})
    /\ Len(inv["meta"]) > 0 =>
          /\ BranchOf(inv["meta"][1]) = run[1].branch["meta"]
          /\ BranchOf(inv["meta"][1]) = "fallback" <=> run[1].meta_summary = "FALLBACK_META"
    /\ (Len(inv["podcast"]) > 0 /\ run[1].podcast_result.success) =>
          BranchOf(inv["podcast"][1]) = run[1].branch["podcast"]
    /\ Len(inv["telegram"]) > 0 =>
          /\ BranchOf(inv["telegram"][1]) = "primary" <=> run[1].telegram_result.podcast_sent
          /\ inv["telegram"][1].fallback = 1 <=> Attempted(run[1], "text")

\* A finished run of two articles: the request for one returned, the request
\* for the other raised and the extractive fallback was called once; the
\* audio send failed and the text send was called once.
C24_Witness ==
    /\ run[1].pc = "done"
    /\ Len(inv["summarize"]) = 2
    /\ \E k, l \in 1..2 :
          /\ inv["summarize"][k].primary = 1 /\ inv["summarize"][k].fallback = 0
          /\ inv["summarize"][l].primary = 1 /\ inv["summarize"][l].fallback = 1
    /\ Len(inv["meta"]) = 1 /\ inv["meta"][1].primary = 0 /\ inv["meta"][1].fallback = 1
    /\ Len(inv["podcast"]) = 1 /\ inv["podcast"][1].primary = 1
    /\ Len(inv["telegram"]) = 1
    /\ inv["telegram"][1].primary = 1 /\ inv["telegram"][1].fallback = 1

\* The articles of s whose ai_summary is a text the AI primary path returned:
\* summarize was called for them (they have full_text) and its request
\* returned a non-empty text.
AISummarised(s) ==
    {i \in 1..Len(s.articles) :
        s.articles[i].full_text > 0 /\ s.articles[i].ai_summary = "AI"}

\* C25: once the summarization stage has completed, ai_summaries_generated is
\* the number of articles summarised by the AI primary path; articles given an
\* extractive fallback summary, the last-resort sentence or a copy of the feed
\* summary are not counted.
C25_CountsOnlyAISummaries ==
    \A r \in Runs :
        (run[r].calls["summarize"] = 1 /\ "summarize" \notin run[r].faults) =>
            run[r].stats.ai_summaries_generated = Cardinality(AISummarised(run[r]))

\* C26: an invocation that has been called eventually returns a result, the
\* returned result and the finalized run never change again, and an invocation
\* that reaches the delivery stage returns status 'success'.
C26_Termination ==
    /\ (run[1].pc \in Stages) ~> (run[1].pc = "done" /\ run[1].result.status # "none")
    /\ (run[1].pc = "telegram") ~>
          (run[1].pc = "done" /\ run[1].result.status = "success")
    /\ [][run[1].pc = "done" => run'[1] = run[1]]_vars

\* A run that went through the delivery stage with nothing delivered and was
\* finalized with status 'success'.
C26_Witness ==
    /\ run[1].pc = "done"
    /\ run[1].calls["telegram"] = 1
    /\ ~run[1].stats.telegram_sent
    /\ run[1].result.status = "success"

\* C29: the flags of a success result agree with the stage outputs:
\* statistics.podcast_created iff the synthesis result reports success, the
\* 'podcast' info is non-empty iff podcast_created, and
\* statistics.telegram_sent iff the returned telegram_result has podcast_sent
\* or text_sent.
C29_FlagsAgree ==
    \A r \in Runs :
        (run[r].pc = "done" /\ run[r].result.status = "success") =>
            LET res == run[r].result IN
            /\ res.statistics.podcast_created <=> run[r].podcast_result.success
            /\ ~res.podcast.empty <=> res.statistics.podcast_created
            /\ res.statistics.telegram_sent <=>
                   (res.telegram_result.podcast_sent \/ res.telegram_result.text_sent)

\* A success whose podcast was created while both sends failed: the flags
\* differ from each other.
C29_Witness ==
    /\ run[1].pc = "done"
    /\ run[1].result.status = "success"
    /\ run[1].podcast_result.success
    /\ run[1].result.statistics.podcast_created
    /\ ~run[1].result.podcast.empty
    /\ run[1].result.telegram_result.attempts = <<"audio", "text">>
    /\ ~run[1].result.telegram_result.podcast_sent
    /\ ~run[1].result.telegram_result.text_sent
    /\ ~run[1].result.statistics.telegram_sent

\* C30: no two pipeline runs write the same podcast output file: two runs
\* that overlap in time, or run on the same calendar day, and both produced a
\* podcast, have distinct output paths.
C30_DistinctOutputPaths ==
    \A r1, r2 \in Runs :
        (/\ r1 # r2
         /\ run[r1].podcast_result.success
         /\ run[r2].podcast_result.success) =>
            run[r1].podcast_result.local_file # run[r2].podcast_result.local_file

\* ------------------------------------------- claims on the deduplicator
\* The call returned after scoring the batch (no early return, no exception).
DDScored == dd.pc = "returned" /\ Len(dd.articles) >= 2 /\ ~dd.scoring.raised

\* The pairs of the call whose score exceeds the call's threshold.
DDAbove == {p \in Pairs(Len(dd.articles)) : dd.scoring.cosine_sim[p] > dd.threshold}

\* The article a pair must lose by the stated policy: the strictly shorter
\* full_text, the higher index on equal lengths.
DDLoser(p) ==
    LET li == dd.articles[p[1]].full_text
        lj == dd.articles[p[2]].full_text
    IN  IF li < lj THEN p[1] ELSE IF lj < li THEN p[2] ELSE p[2]

\* C6: for every pair i < j scoring above the threshold, the article with the
\* strictly shorter full_text is marked for removal, and on equal lengths the
\* higher index j; in a two-article batch nothing else is marked.
C6_TieBreak ==
    DDScored =>
        /\ \A p \in DDAbove : DDLoser(p) \in dd.result.articles_to_remove
        /\ (Len(dd.articles) = 2 /\ DDAbove # {}) =>
               dd.result.articles_to_remove = {DDLoser(<<1, 2>>)}

\* A call with one pair decided by a tie (j removed) and one pair in which the
\* lower index is strictly shorter and is removed.
C6_Witness ==
    /\ DDScored
    /\ \E p \in DDAbove :
          /\ dd.articles[p[1]].full_text = dd.articles[p[2]].full_text
          /\ p[2] \in dd.result.articles_to_remove
    /\ \E p \in DDAbove :
          /\ dd.articles[p[1]].full_text < dd.articles[p[2]].full_text
          /\ p[1] \in dd.result.articles_to_remove

\* C7: the removal set is exactly the union of the per-pair losers over all
\* pairs above the threshold, each pair decided on its own.
C7_UnionOfLosers ==
    DDScored => dd.result.articles_to_remove = {DDLoser(p) : p \in DDAbove}

\* A-B and B-C above the threshold, A-C below; B loses to A and, already lost,
\* still wins against C, so both B and C are removed.
C7_Witness ==
    /\ DDScored
    /\ Len(dd.articles) = 3
    /\ DDAbove = {<<1, 2>>, <<2, 3>>}
    /\ DDLoser(<<1, 2>>) = 2
    /\ DDLoser(<<2, 3>>) = 3
    /\ dd.result.articles_to_remove = {2, 3}

\* C8: for the batch and scores of the call, the removal set of any threshold
\* no lower than the call's is contained in the call's removal set, and the
\* call's removal set in that of any threshold no higher.
C8_ThresholdMonotone ==
    DDScored =>
        \A t \in Thresholds :
            LET other == find_duplicates(dd.articles, dd.scoring, t).articles_to_remove
                mine == dd.result.articles_to_remove
            IN  /\ (dd.threshold <= t) => other \subseteq mine
                /\ (t <= dd.threshold) => mine \subseteq other

\* A call whose removal set is strictly larger than the one a higher threshold
\* gives, which is itself not empty.
C8_Witness ==
    /\ DDScored
    /\ \E t \in Thresholds :
          LET other == find_duplicates(dd.articles, dd.scoring, t).articles_to_remove
          IN  /\ dd.threshold < t
              /\ other # {}
              /\ other # dd.result.articles_to_remove

\* The original indices reported by the removed articles of the call.
DDReported == {dd'.result.removed_articles[k].original_index :
                  k \in 1..Len(dd'.result.removed_articles)}

\* The batch indices the call did not report as removed.
DDSurvivors == {i \in 1..Len(dd.articles) : i \notin DDReported}

\* The k-th survivor in batch order.
DDSurvivor(k) ==
    CHOOSE i \in DDSurvivors : Cardinality({j \in DDSurvivors : j <= i}) = k

\* C19: a call of remove_duplicates leaves the input list and each of its
\* articles unchanged; the output holds exactly the articles not reported as
\* removed, in their batch order; each removed article is reported once, as a
\* copy of the input article at its original index, annotated with the reason.
C19_InputNotMutated ==
    [][dd.pc = "ready" =>
          /\ dd'.articles = dd.articles
          /\ Len(dd'.result.articles) = Cardinality(DDSurvivors)
          /\ \A k \in 1..Len(dd'.result.articles) :
                dd'.result.articles[k] = dd.articles[DDSurvivor(k)]
          /\ Len(dd'.result.removed_articles) = Cardinality(DDReported)
          /\ \A k \in 1..Len(dd'.result.removed_articles) :
                LET ra == dd'.result.removed_articles[k]
                IN  /\ ra.original_index \in 1..Len(dd.articles)
                    /\ ra.article = dd.articles[ra.original_index]
                    /\ ra.removal_reason = "duplicate_content"
          /\ Len(dd'.result.articles) + Len(dd'.result.removed_articles)
                 = Len(dd.articles)]_vars

\* A returned call that removed the middle article of three: the input still
\* holds the three articles, the output the first and the third in that order,
\* and the removed copy carries index 2.
C19_Witness ==
    /\ dd.pc = "returned"
    /\ Len(dd.articles) = 3
    /\ {dd.articles[i].id : i \in 1..3} = {1, 2, 3}
    /\ Len(dd.result.articles) = 2
    /\ dd.result.articles[1] = dd.articles[1]
    /\ dd.result.articles[2] = dd.articles[3]
    /\ Len(dd.result.removed_articles) = 1
    /\ dd.result.removed_articles[1].original_index = 2
    /\ dd.result.removed_articles[1].article = dd.articles[2]

\* The duplicate_pairs that find_duplicates reported during the call.
DDPairs == find_duplicates(dd.articles, dd.scoring, dd.threshold).duplicate_pairs

\* The batch indices that appear in a reported pair.
DDPaired ==
    UNION {{DDPairs[k].article1_idx, DDPairs[k].article2_idx} : k \in 1..Len(DDPairs)}

\* C20: every reported pair has article1_idx < article2_idx, within the batch,
\* and the score of that pair, which is strictly greater than the threshold;
\* no pair is reported twice; a pair scoring exactly the threshold is not
\* reported; and only articles of reported pairs are removed.
C20_PairsCanonicalAndStrict ==
    dd.pc = "returned" =>
        /\ \A k \in 1..Len(DDPairs) :
              /\ DDPairs[k].article1_idx < DDPairs[k].article2_idx
              /\ DDPairs[k].article1_idx >= 1
              /\ DDPairs[k].article2_idx <= Len(dd.articles)
              /\ DDPairs[k].similarity_score
                     = dd.scoring.cosine_sim[<<DDPairs[k].article1_idx,
                                              DDPairs[k].article2_idx>>]
              /\ DDPairs[k].similarity_score > dd.threshold
        /\ \A k, l \in 1..Len(DDPairs) :
              (/\ DDPairs[k].article1_idx = DDPairs[l].article1_idx
               /\ DDPairs[k].article2_idx = DDPairs[l].article2_idx) => k = l
        /\ DDScored =>
              \A p \in Pairs(Len(dd.articles)) :
                  dd.scoring.cosine_sim[p] = dd.threshold =>
                      \A k \in 1..Len(DDPairs) :
                          <<DDPairs[k].article1_idx, DDPairs[k].article2_idx>> # p
        /\ find_duplicates(dd.articles, dd.scoring, dd.threshold).articles_to_remove
               \subseteq DDPaired
        /\ Len(dd.articles) >= 1 => dd.result.duplicate_pairs = DDPairs

\* Three articles: one pair scores exactly the threshold, is not reported and
\* both its articles survive, while another pair scores above the threshold and
\* is reported.
C20_Witness ==
    /\ DDScored
    /\ Len(dd.articles) = 3
    /\ Len(DDPairs) >= 1
    /\ \E p \in Pairs(3) :
          /\ dd.scoring.cosine_sim[p] = dd.threshold
          /\ p[1] \notin dd.result.articles_to_remove
          /\ p[2] \notin dd.result.articles_to_remove
          /\ Len(dd.result.articles) = 2

\* ------------------------------------------- claims on the summarizer
\* The primary of the call succeeded: the API was available and the request
\* returned.
AIPrimaryOk == ai.api_available /\ ai.response # "raise"

\* The text the primary returned.
AIPrimaryText(text) == IF ai.response = "blank" THEN "" ELSE text

\* The rows of the call's DataFrame hold no non-str summary.
AIRowsAreText ==
    \A i \in 1..Len(ai.articles_df) : ai.articles_df[i].ai_summary # "NAN"

\* Some row of the call's DataFrame holds a usable summary.
AISomeValid ==
    \E i \in 1..Len(ai.articles_df) : ValidSummary(ai.articles_df[i])

DDChampion ==
    CHOOSE i \in 1..Len(dd.articles) :
        /\ \A j \in 1..Len(dd.articles) : dd.articles[j].full_text <= dd.articles[i].full_text
        /\ \A j \in 1..(i - 1) : dd.articles[j].full_text < dd.articles[i].full_text

\* C27: a call of remove_duplicates on a batch of at least one article returns
\* at least one article, whatever the scores and the threshold; the lowest
\* index among the articles with the longest full_text is not in the removal
\* set and that article is in the output.
C27_NeverEmpties ==
    (dd.pc = "returned" /\ Len(dd.articles) >= 1) =>
        /\ Len(dd.result.articles) >= 1
        /\ DDChampion
              \notin find_duplicates(dd.articles, dd.scoring, dd.threshold).articles_to_remove
        /\ \A k \in 1..Len(dd.result.removed_articles) :
              dd.result.removed_articles[k].original_index # DDChampion
        /\ \E k \in 1..Len(dd.result.articles) :
              dd.result.articles[k] = dd.articles[DDChampion]

\* Three articles, every pair above the threshold, the longest text first at
\* index 2: articles 1 and 3 are removed and article 2 alone is returned.
C27_Witness ==
    /\ DDScored
    /\ Len(dd.articles) = 3
    /\ DDAbove = Pairs(3)
    /\ DDChampion = 2
    /\ dd.result.articles_to_remove = {1, 3}
    /\ dd.result.articles = <<dd.articles[2]>>

\* The batch indices of the articles the call returned, and of those it
\* reported as removed (an article of the batch at index i has id i).
DDKept == {dd.result.articles[k].id : k \in 1..Len(dd.result.articles)}

DDRemoved ==
    {dd.result.removed_articles[k].original_index :
        k \in 1..Len(dd.result.removed_articles)}

\* C28: the call partitions its input: every index of the batch is either in
\* 'articles' or in 'removed_articles', once; duplicates_removed =
\* original_count - final_count = len(removed_articles) = the size of the
\* removal set, which is at most the number of duplicate pairs found.
C28_Partition ==
    dd.pc = "returned" =>
        LET stats == dd.result.deduplication_stats
            toRemove ==
                find_duplicates(dd.articles, dd.scoring, dd.threshold).articles_to_remove
        IN  /\ DDKept \cup DDRemoved = 1..Len(dd.articles)
            /\ DDKept \cap DDRemoved = {}
            /\ Len(dd.result.articles) = Cardinality(DDKept)
            /\ Len(dd.result.removed_articles) = Cardinality(DDRemoved)
            /\ DDRemoved = toRemove
            /\ stats.original_count = Len(dd.articles)
            /\ stats.final_count = Len(dd.result.articles)
            /\ stats.duplicates_removed = stats.original_count - stats.final_count
            /\ stats.duplicates_removed = Len(dd.result.removed_articles)
            /\ stats.duplicates_removed = Cardinality(toRemove)
            /\ Cardinality(toRemove) <= Len(DDPairs)
            /\ Len(dd.articles) >= 1 => stats.duplicate_pairs_found = Len(DDPairs)

\* Three articles of which the third loses two pairs: two pairs are found and
\* one article is removed.
C28_Witness ==
    /\ DDScored
    /\ Len(dd.articles) = 3
    /\ DDAbove = {<<1, 3>>, <<2, 3>>}
    /\ dd.result.deduplication_stats.duplicate_pairs_found = 2
    /\ dd.result.deduplication_stats.duplicates_removed = 1
    /\ DDRemoved = {3}
    /\ DDKept = {1, 2}

====
